---- MODULE Spec2Model ----
(***************************************************************************)
(* pytorch-hebbian: the training loop of HebbianEngine.train              *)
(* (learning_engines/hebbian_engine.py), the scheduler main.py attaches   *)
(* to it, and the Krotov-Hopfield learning rule (learning_rules/krotov.py)*)
(*                                                                         *)
(* Two specifications share the module.  Spec runs HebbianEngine.train,   *)
(* one action per step of the loop.  SpecRule runs KrotovsRule.update and *)
(* KrotovsRule.update_argsort on small integer matrices.                  *)
(*                                                                         *)
(* Numbers.  Weights and inputs are integers.  delta is a number of       *)
(* tenths (delta = 4 is 0.4), so activations, xx, ds, nc and precision    *)
(* are all held as tenths: the activation +1.0 is ONE = 10.  A quotient   *)
(* (the learning rate, the returned d_w) is held as numerator and         *)
(* denominator and compared by cross multiplication.                      *)
(***************************************************************************)
EXTENDS Integers, Sequences, FiniteSets

VARIABLES
    \* ---- HebbianEngine.train ----
    pc,                 \* position in train
    epochs,             \* train(epochs=...)
    eval_every,         \* train(eval_every=...), None when unset
    checkpoint_every,   \* train(checkpoint_every=...), None when unset
    num_batches,        \* len(data_loader)
    rule_k,             \* learning_rule.k
    hidden_units,       \* weights.shape[0] of the trained layer
    base_lr,            \* the optimizer's lr, in hundredths
    epoch,              \* the loop variable of "for epoch in range(epochs)"
    batch,              \* batches of the current epoch already consumed
    last_epoch,         \* lr_scheduler.last_epoch
    lr,                 \* the optimizer's current learning rate <<num, den>>
    stats,              \* the local variable stats
    weights,            \* [origin, steps]: who set the weights, local_steps since
    cause,              \* what raised, when pc = "error"
    log,                \* the calls train has made, in order
    \* ---- KrotovsRule ----
    rpc,                \* "idle", "ready"
    inputs,             \* X, batch_size x input_size
    synapses,           \* W, num_hidden_units x input_size
    k,                  \* self.k
    delta,              \* self.delta, in tenths
    norm,               \* self.norm
    precision,          \* self.precision, in tenths
    res_topk,           \* what update returned (or raised)
    res_argsort         \* what update_argsort returned (or raised)

evars == <<pc, epochs, eval_every, checkpoint_every, num_batches, rule_k,
           hidden_units, base_lr, epoch, batch, last_epoch, lr, stats,
           weights, cause, log>>
rvars == <<rpc, inputs, synapses, k, delta, norm, precision, res_topk, res_argsort>>
vars == <<evars, rvars>>

----------------------------------------------------------------------------
(* Bounds of the model *)
MaxEpochs == 4
MaxEvery == 3
MaxBatches == 2
MaxHidden == 3
MaxBatchSize == 2

\* Python's None, for eval_every, checkpoint_every and stats
None == -1

\* The values an evaluation may return (HebbianEvaluator's statistics)
StatsVals == {1, 2}

\* lr of params_cifar and params_mnist, in hundredths
BaseLrs == {2, 4}

----------------------------------------------------------------------------
(* Helpers *)
Max(a, b) == IF a >= b THEN a ELSE b
Abs(a) == IF a < 0 THEN 0 - a ELSE a

RECURSIVE Pow(_, _)
Pow(a, n) == IF n = 0 THEN 1 ELSE a * Pow(a, n - 1)

Sign(a) == IF a > 0 THEN 1 ELSE IF a < 0 THEN 0 - 1 ELSE 0

\* a sequence given as a function, as the tuple of its values
Tup(f) == SubSeq(f, 1, Len(f))

RECURSIVE SumTo(_, _)
\* f[1] + ... + f[n]
SumTo(f, n) == IF n = 0 THEN 0 ELSE f[n] + SumTo(f, n - 1)

----------------------------------------------------------------------------
(* KrotovsRule.update's assertion, shared by both specifications *)

\* assert (self.k <= num_hidden_units)
KLeqHidden(kk, h) == kk <= h

----------------------------------------------------------------------------
(* The scheduler main.py builds: LambdaLR(lr_lambda = 1 - epoch / epochs) *)

LrLambda_next(e, total) == <<total - (e + 1), total>>
\* lr_lambda(epoch) = 1 - epoch / epochs, as <<numerator, denominator>>
LrLambda(e, total) == <<total - e, total>>

\* LambdaLR.get_lr: base_lr * lr_lambda(last_epoch)
SchedulerLr(base, last, total) ==
    <<base * LrLambda(last, total)[1], LrLambda(last, total)[2]>>

----------------------------------------------------------------------------
(* HebbianEngine.train *)

Event(ev, ep, b, rate, st, ok) ==
    [ev |-> ev, epoch |-> ep, batch |-> b, lr |-> rate, stats |-> st, ok |-> ok]

EvalDue_zero_based(vis_epoch, every) ==
    every /= None /\ (vis_epoch - 1) % every = 0
\* if eval_every is not None: if vis_epoch % eval_every == 0
EvalDue(vis_epoch, every) ==
    every /= None /\ vis_epoch % every = 0

CheckpointDue_default_one(vis_epoch, every) ==
    IF every = None THEN TRUE ELSE vis_epoch % every = 0
\* if checkpoint_every is not None: if vis_epoch % checkpoint_every == 0
CheckpointDue(vis_epoch, every) ==
    every /= None /\ vis_epoch % every = 0

StatsAtEvaluation_kept(old) == old
\* stats = None, at the top of every epoch's evaluation block
StatsAtEvaluation(old) == None

EngineInit ==
    /\ pc = "layers"
    /\ epochs \in 1..MaxEpochs
    /\ eval_every \in {None} \cup (1..MaxEvery)
    /\ checkpoint_every \in {None} \cup (1..MaxEvery)
    /\ num_batches \in 1..MaxBatches
    /\ hidden_units \in 1..MaxHidden
    /\ rule_k \in 1..(hidden_units + 1)
    /\ base_lr \in BaseLrs
    /\ epoch = 0
    /\ batch = 0
    /\ last_epoch = 0
    /\ lr = SchedulerLr(base_lr, 0, epochs)
    /\ stats = None
    /\ weights = [origin |-> "caller", steps |-> 0]
    /\ cause = "none"
    /\ log = <<>>

\* lines 39-48: the Linear layers but the last are re-initialised
InitLayers ==
    /\ pc = "layers"
    /\ weights' = [origin |-> "normal_", steps |-> 0]
    /\ pc' = "epoch"
    /\ UNCHANGED <<epochs, eval_every, checkpoint_every, num_batches, rule_k,
                   hidden_units, base_lr, epoch, batch, last_epoch, lr, stats,
                   cause, log>>

\* lines 55-64: the head of the epoch loop; line 88 when the range is exhausted
EpochBegin ==
    /\ pc = "epoch"
    /\ IF epoch < epochs
         THEN /\ pc' = "batch"
              /\ batch' = 0
              /\ log' = Append(log, Event("get_last_lr", epoch + 1, 0, lr, None, TRUE))
         ELSE /\ pc' = "done"
              /\ UNCHANGED <<batch, log>>
    /\ UNCHANGED <<epochs, eval_every, checkpoint_every, num_batches, rule_k,
                   hidden_units, base_lr, epoch, last_epoch, lr, stats,
                   weights, cause>>

\* lines 65-70 with _train_step (20-27): learning_rule.update, then local_step
TrainStep ==
    /\ pc = "batch"
    /\ batch < num_batches
    /\ IF KLeqHidden(rule_k, hidden_units)
         THEN /\ weights' = [weights EXCEPT !.steps = @ + 1]
              /\ log' = Append(log, Event("local_step", epoch + 1, batch + 1, lr, None, TRUE))
              /\ batch' = batch + 1
              /\ UNCHANGED <<pc, cause>>
         ELSE /\ pc' = "error"
              /\ cause' = "update"
              /\ log' = Append(log, Event("update", epoch + 1, batch + 1, lr, None, FALSE))
              /\ UNCHANGED <<weights, batch>>
    /\ UNCHANGED <<epochs, eval_every, checkpoint_every, num_batches, rule_k,
                   hidden_units, base_lr, epoch, last_epoch, lr, stats>>

\* line 72: self.lr_scheduler.step(), once the batches are exhausted
SchedulerStep ==
    /\ pc = "batch"
    /\ batch = num_batches
    /\ last_epoch' = last_epoch + 1
    /\ lr' = SchedulerLr(base_lr, last_epoch + 1, epochs)
    /\ log' = Append(log, Event("scheduler_step", epoch + 1, 0, lr, None, TRUE))
    /\ pc' = "eval"
    /\ UNCHANGED <<epochs, eval_every, checkpoint_every, num_batches, rule_k,
                   hidden_units, base_lr, epoch, batch, stats, weights, cause>>

\* lines 74-78: self.eval() returns statistics, or raises
Evaluation ==
    /\ pc = "eval"
    /\ IF EvalDue(epoch + 1, eval_every)
         THEN \/ \E s \in StatsVals :
                   /\ stats' = s
                   /\ log' = Append(log, Event("eval", epoch + 1, 0, lr, s, TRUE))
                   /\ pc' = "checkpoint"
                   /\ UNCHANGED cause
              \/ /\ log' = Append(log, Event("eval", epoch + 1, 0, lr, None, FALSE))
                 /\ pc' = "error"
                 /\ cause' = "eval"
                 /\ stats' = StatsAtEvaluation(stats)
         ELSE /\ stats' = StatsAtEvaluation(stats)
              /\ pc' = "checkpoint"
              /\ UNCHANGED <<log, cause>>
    /\ UNCHANGED <<epochs, eval_every, checkpoint_every, num_batches, rule_k,
                   hidden_units, base_lr, epoch, batch, last_epoch, lr, weights>>

\* lines 80-86: self.checkpoint(model[, stats]) returns, or raises
Checkpoint ==
    /\ pc = "checkpoint"
    /\ IF CheckpointDue(epoch + 1, checkpoint_every)
         THEN \/ /\ log' = Append(log, Event("checkpoint", epoch + 1, 0, lr, stats, TRUE))
                 /\ pc' = "epoch"
                 /\ epoch' = epoch + 1
                 /\ UNCHANGED cause
              \/ /\ log' = Append(log, Event("checkpoint", epoch + 1, 0, lr, stats, FALSE))
                 /\ pc' = "error"
                 /\ cause' = "checkpoint"
                 /\ UNCHANGED epoch
         ELSE /\ pc' = "epoch"
              /\ epoch' = epoch + 1
              /\ UNCHANGED <<log, cause>>
    /\ UNCHANGED <<epochs, eval_every, checkpoint_every, num_batches, rule_k,
                   hidden_units, base_lr, batch, last_epoch, lr, stats, weights>>

RuleIdle ==
    /\ rpc = "idle"
    /\ inputs = <<>>
    /\ synapses = <<>>
    /\ k = 0
    /\ delta = 0
    /\ norm = 0
    /\ precision = 0
    /\ res_topk = [status |-> "none"]
    /\ res_argsort = [status |-> "none"]

Init == EngineInit /\ RuleIdle

Next ==
    \/ InitLayers /\ UNCHANGED rvars
    \/ EpochBegin /\ UNCHANGED rvars
    \/ TrainStep /\ UNCHANGED rvars
    \/ SchedulerStep /\ UNCHANGED rvars
    \/ Evaluation /\ UNCHANGED rvars
    \/ Checkpoint /\ UNCHANGED rvars

Spec == Init /\ [][Next]_vars

----------------------------------------------------------------------------
(* KrotovsRule: update (top-k selection) and update_argsort (full sort) *)

\* the activation 1.0, in tenths
ONE == 10

\* the columns of an input batch and of the weight matrix
Features == {1, 2}
input_size == Cardinality(Features)

\* rows of the weight matrix (pairwise distinct in a matrix, as normal_ leaves
\* them) and samples of a batch the model draws from
WeightRows == {<<0 - 1, 2>>, <<2, 0 - 1>>, <<2, 2>>, <<0 - 1, 0 - 2>>}
Samples == {<<0, 0>>, <<1, 0>>, <<1, 2>>, <<2, 1>>}

\* (delta in tenths, norm, precision in tenths): delta and norm of
\* params_mnist and params_cifar of main.py.  A precision of one tenth lies,
\* like the default 1e-30, below every nonzero entry of a raw delta; the
\* larger one lets nonzero raw deltas fall below precision
HyperParams ==
    { [delta |-> 4, norm |-> 3, precision |-> 1],
      [delta |-> 2, norm |-> 5, precision |-> 30] }

\* torch.matmul(torch.sign(weights) * torch.abs(weights) ** (norm - 1), inputs)
TotInput(W, X, p) ==
    Tup([h \in DOMAIN W |-> Tup([b \in DOMAIN X |->
        SumTo([d \in 1..input_size |->
                  Sign(W[h][d]) * Pow(Abs(W[h][d]), p - 1) * X[b][d]], input_size)])])

Injective(f) == \A i, j \in DOMAIN f : i /= j => f[i] /= f[j]

\* torch.topk and torch.argsort do not specify the order of equal scores.
\* Each call of the model orders them one of these ways: by ascending index
\* ("low") or by descending index ("high").
TiePolicies == {"low", "high"}
TieBefore(pol, h1, h2) == IF pol = "low" THEN h1 < h2 ELSE h1 > h2

TopkBefore_smallest(s1, s2) == s1 < s2
\* torch.topk's order (largest=True): the first score strictly precedes the second
TopkBefore(s1, s2) == s1 > s2

\* torch.topk(tot_input, k, dim=0), column b: the indices of the k largest
\* entries, largest first: entry i is the unit that exactly i - 1 units precede
TopkColumn(tot, b, H, kk, pol) ==
    LET before(h1, h2) ==
            \/ TopkBefore(tot[h1][b], tot[h2][b])
            \/ tot[h1][b] = tot[h2][b] /\ TieBefore(pol, h1, h2)
    IN  Tup([i \in 1..kk |->
            CHOOSE h \in 1..H : Cardinality({g \in 1..H : before(g, h)}) = i - 1])

\* torch.argsort(tot_input, dim=0), column b: the permutation putting the
\* scores in ascending order
ArgsortColumn(tot, b, H, pol) ==
    LET before(h1, h2) ==
            \/ tot[h1][b] < tot[h2][b]
            \/ tot[h1][b] = tot[h2][b] /\ TieBefore(pol, h1, h2)
    IN  Tup([i \in 1..H |->
            CHOOSE h \in 1..H : Cardinality({g \in 1..H : before(g, h)}) = i - 1])

ArgsortKth_wrapped(H, kk) == IF H - kk >= 1 THEN H - kk ELSE H
\* the row num_hidden_units - k of y, counted from 1
ArgsortKth(H, kk) == H - kk + 1

Activations_winner_last(first, second, H, B, dl) ==
    Tup([h \in 1..H |-> Tup([b \in 1..B |->
        IF h = first[b] THEN ONE ELSE IF h = second[b] THEN 0 - dl ELSE 0])])
\* activations = zeros; activations[first] = 1.0; activations[second] = -delta
\* (the second assignment overwrites the first where the two indices agree)
Activations(first, second, H, B, dl) ==
    Tup([h \in 1..H |-> Tup([b \in 1..B |->
        IF h = second[b] THEN 0 - dl ELSE IF h = first[b] THEN ONE ELSE 0])])

\* xx = torch.sum(torch.mul(activations, tot_input), 1)
Xx(act, tot, B) ==
    [h \in DOMAIN act |-> SumTo([b \in 1..B |-> act[h][b] * tot[h][b]], B)]

\* ds = torch.matmul(activations, torch.t(inputs)) - norm_factor
RawDelta(act, tot, W, X, B) ==
    Tup([h \in DOMAIN W |-> Tup([d \in 1..input_size |->
        SumTo([b \in 1..B |-> act[h][b] * X[b][d]], B) - Xx(act, tot, B)[h] * W[h][d]])])

RECURSIVE SetMax(_)
SetMax(S) ==
    LET x == CHOOSE y \in S : TRUE
    IN  IF S = {x} THEN x ELSE Max(x, SetMax(S \ {x}))

MaxAbs_signed(ds) == SetMax({ds[h][d] : h \in DOMAIN ds, d \in 1..input_size})
\* nc = torch.max(torch.abs(ds))
MaxAbs(ds) == SetMax({Abs(ds[h][d]) : h \in DOMAIN ds, d \in 1..input_size})

\* if nc < precision: nc = precision; d_w = torch.true_divide(ds, nc)
Normalize(ds, prec) ==
    [num |-> ds, den |-> IF MaxAbs(ds) < prec THEN prec ELSE MaxAbs(ds)]

Returned(tot, first, second, act, ds, d_w) ==
    [status |-> "returned", tot_input |-> tot, first |-> first, second |-> second,
     activations |-> act, ds |-> ds, d_w |-> d_w]

Raised == [status |-> "AssertionError"]
NotCalled == [status |-> "none"]

num_hidden_units == Len(synapses)
batch_size == Len(inputs)

RuleInit ==
    /\ rpc = "ready"
    /\ \E H \in 1..MaxHidden :
          /\ synapses \in {W \in [1..H -> WeightRows] : Injective(W)}
          /\ k \in 1..(H + 1)
    /\ \E B \in 1..MaxBatchSize : inputs \in [1..B -> Samples]
    /\ \E hp \in HyperParams :
          /\ delta = hp.delta
          /\ norm = hp.norm
          /\ precision = hp.precision
    /\ res_topk = NotCalled
    /\ res_argsort = NotCalled

\* KrotovsRule.update; each \E over a one-element set is a local variable
Update ==
    /\ rpc = "ready"
    /\ res_topk = NotCalled
    /\ IF ~KLeqHidden(k, num_hidden_units)
         THEN res_topk' = Raised
         ELSE \E H \in {num_hidden_units} : \E B \in {batch_size} :
              \E tot_input \in {TotInput(synapses, inputs, norm)} :
              \E pol \in TiePolicies :
              \E indices \in {Tup([b \in 1..B |-> TopkColumn(tot_input, b, H, k, pol)])} :
              \E first \in {Tup([b \in 1..B |-> indices[b][1]])} :
              \E second \in {Tup([b \in 1..B |-> indices[b][k]])} :
              \E activations \in {Activations(first, second, H, B, delta)} :
              \E ds \in {RawDelta(activations, tot_input, synapses, inputs, B)} :
              \E d_w \in {Normalize(ds, precision)} :
                  res_topk' = Returned(tot_input, first, second, activations, ds, d_w)
    /\ UNCHANGED <<rpc, inputs, synapses, k, delta, norm, precision, res_argsort>>

\* KrotovsRule.update_argsort
UpdateArgsort ==
    /\ rpc = "ready"
    /\ res_argsort = NotCalled
    /\ IF ~KLeqHidden(k, num_hidden_units)
         THEN res_argsort' = Raised
         ELSE \E H \in {num_hidden_units} : \E B \in {batch_size} :
              \E tot_input \in {TotInput(synapses, inputs, norm)} :
              \E pol \in TiePolicies :
              \E y \in {Tup([b \in 1..B |-> ArgsortColumn(tot_input, b, H, pol)])} :
              \E first \in {Tup([b \in 1..B |-> y[b][H]])} :
              \E second \in {Tup([b \in 1..B |-> y[b][ArgsortKth(H, k)]])} :
              \E activations \in {Activations(first, second, H, B, delta)} :
              \E ds \in {RawDelta(activations, tot_input, synapses, inputs, B)} :
              \E d_w \in {Normalize(ds, precision)} :
                  res_argsort' = Returned(tot_input, first, second, activations, ds, d_w)
    /\ UNCHANGED <<rpc, inputs, synapses, k, delta, norm, precision, res_topk>>

EngineIdle ==
    /\ pc = "idle"
    /\ epochs = 0
    /\ eval_every = None
    /\ checkpoint_every = None
    /\ num_batches = 0
    /\ rule_k = 0
    /\ hidden_units = 0
    /\ base_lr = 0
    /\ epoch = 0
    /\ batch = 0
    /\ last_epoch = 0
    /\ lr = <<0, 1>>
    /\ stats = None
    /\ weights = [origin |-> "caller", steps |-> 0]
    /\ cause = "none"
    /\ log = <<>>

InitRule == RuleInit /\ EngineIdle

NextRule ==
    \/ Update /\ UNCHANGED evars
    \/ UpdateArgsort /\ UNCHANGED evars

SpecRule == InitRule /\ [][NextRule]_vars

----------------------------------------------------------------------------
(* Claims about HebbianEngine.train, checked under Spec *)

\* positions of the log holding a call of the given kind
Evs(ev) == {i \in DOMAIN log : log[i].ev = ev}

\* C1: with eval_every = n >= 1 the evaluator is invoked once at the end of
\* each epoch whose 1-based number is a multiple of n (after that epoch's
\* scheduler step) and in no other epoch; a run that returns after E epochs
\* has invoked it exactly E div n times.
C1_EvalEveryN ==
    eval_every /= None =>
        /\ \A i \in Evs("eval") :
              /\ log[i].epoch % eval_every = 0
              /\ \E j \in Evs("scheduler_step") : j < i /\ log[j].epoch = log[i].epoch
        /\ \A i, j \in Evs("eval") : i /= j => log[i].epoch /= log[j].epoch
        /\ \A v \in 1..epoch :
              v % eval_every = 0 => \E i \in Evs("eval") : log[i].epoch = v
        /\ pc = "done" => Cardinality(Evs("eval")) = epochs \div eval_every

\* the scenario of the specification: eval_every = 2 over 4 epochs, two evaluations
C1_Witness ==
    /\ pc = "done"
    /\ epochs = 4
    /\ eval_every = 2
    /\ {log[i].epoch : i \in Evs("eval")} = {2, 4}

\* C2: with checkpoint_every unset the checkpoint sink is never invoked; with
\* checkpoint_every = c it is invoked exactly at the epochs whose 1-based
\* number is a multiple of c.
C2_CheckpointCadence ==
    /\ checkpoint_every = None => Evs("checkpoint") = {}
    /\ checkpoint_every /= None =>
        /\ \A i \in Evs("checkpoint") : log[i].epoch % checkpoint_every = 0
        /\ \A i, j \in Evs("checkpoint") : i /= j => log[i].epoch /= log[j].epoch
        /\ \A v \in 1..epoch :
              v % checkpoint_every = 0 => \E i \in Evs("checkpoint") : log[i].epoch = v
        /\ pc = "done" => Cardinality(Evs("checkpoint")) = epochs \div checkpoint_every

\* a whole run with evaluations and an unset checkpoint interval
C2_Witness ==
    /\ pc = "done"
    /\ checkpoint_every = None
    /\ eval_every = 2
    /\ epochs = 4
    /\ Cardinality(Evs("eval")) = 2

\* C3: when k exceeds the number of hidden units the run aborts before any
\* mutation of the weights: at the error the weights are the caller's, and no
\* optimizer step, scheduler step, evaluation or checkpoint has happened.
C3_AbortBeforeAnyMutation ==
    (pc = "error" /\ cause = "update") =>
        /\ weights = [origin |-> "caller", steps |-> 0]
        /\ \A i \in DOMAIN log :
              log[i].ev \notin {"local_step", "scheduler_step", "eval", "checkpoint"}

\* C8: the schedule is advanced once per epoch, after the epoch's last batch
\* and before its evaluation and checkpoint, never between two batches; every
\* optimizer step of 0-based epoch e uses base_lr * (1 - e / epochs).
C8_LrOncePerEpoch ==
    /\ \A i \in Evs("local_step") :
          log[i].lr[1] * epochs = base_lr * (epochs - (log[i].epoch - 1)) * log[i].lr[2]
    /\ \A i \in Evs("scheduler_step") :
          /\ Cardinality({j \in Evs("local_step") :
                             j < i /\ log[j].epoch = log[i].epoch}) = num_batches
          /\ \A j \in DOMAIN log :
                log[j].epoch = log[i].epoch =>
                    /\ j < i => log[j].ev \in {"get_last_lr", "local_step"}
                    /\ j > i => log[j].ev \in {"eval", "checkpoint"}
    /\ \A v \in 1..epoch : \E i \in Evs("scheduler_step") : log[i].epoch = v
    /\ last_epoch = Cardinality(Evs("scheduler_step"))

\* two epochs of two batches each: the two epochs' steps used different rates
C8_Witness ==
    /\ pc = "done"
    /\ epochs = 2
    /\ num_batches = 2
    /\ \E i, j \in Evs("local_step") :
          /\ log[i].epoch = 1 /\ log[j].epoch = 2
          /\ log[i].lr[1] * log[j].lr[2] /= log[j].lr[1] * log[i].lr[2]

\* C9: a failure of the evaluator or of the checkpoint sink does not abort the
\* training loop; only a failure inside a batch update stops the run.
C9_SinkFailureNonFatal ==
    pc = "error" => cause = "update"

\* C10: a checkpoint carries statistics iff the evaluator ran in that same
\* epoch, and then exactly the ones that evaluation returned; statistics of an
\* earlier epoch are never attached to a later checkpoint.
C10_CheckpointStats ==
    \A i \in Evs("checkpoint") :
        LET same == {j \in Evs("eval") : log[j].epoch = log[i].epoch /\ log[j].ok}
        IN  /\ log[i].stats /= None <=> same /= {}
            /\ \A j \in same : log[i].stats = log[j].stats

\* a checkpoint without statistics, taken after an earlier epoch was evaluated
C10_Witness ==
    \E i \in Evs("checkpoint") : \E j \in Evs("eval") :
        /\ log[j].ok
        /\ log[j].epoch < log[i].epoch
        /\ log[i].stats = None

----------------------------------------------------------------------------
(* Claims about KrotovsRule, checked under SpecRule *)

HasReturned(r) == r.status = "returned"

\* no two hidden units have the same score for any sample
NoTies(tot) ==
    \A b \in 1..batch_size : \A h1, h2 \in 1..num_hidden_units :
        h1 /= h2 => tot[h1][b] /= tot[h2][b]

\* how many hidden units score strictly higher than h for sample b
Above(tot, h, b) == Cardinality({g \in 1..num_hidden_units : tot[g][b] > tot[h][b]})

\* C4: in update with 2 <= k <= H and no tied scores within a column, every
\* sample has exactly two nonzero activations: +1 at the unit with the highest
\* score and -delta at the distinct unit with the k-th highest score; every
\* other unit has activation 0.
C4_TwoNonzeroPerSample ==
    (HasReturned(res_topk) /\ k >= 2 /\ NoTies(res_topk.tot_input)) =>
        \A b \in 1..batch_size :
            /\ \A h \in 1..num_hidden_units :
                  res_topk.activations[h][b] =
                      IF Above(res_topk.tot_input, h, b) = 0 THEN ONE
                      ELSE IF Above(res_topk.tot_input, h, b) = k - 1 THEN 0 - delta
                      ELSE 0
            /\ Cardinality({h \in 1..num_hidden_units :
                               res_topk.activations[h][b] /= 0}) = 2

\* k = 2 of three units, two samples with different winners, no ties
C4_Witness ==
    /\ HasReturned(res_topk)
    /\ k = 2
    /\ num_hidden_units = 3
    /\ batch_size = 2
    /\ NoTies(res_topk.tot_input)
    /\ res_topk.first[1] /= res_topk.first[2]

\* C5 as stated: with k = 1 every sample's activation column carries no
\* nonzero activation after the assignments of update and update_argsort.
C5_NetZeroActivation ==
    \A r \in {res_topk, res_argsort} :
        (HasReturned(r) /\ k = 1) =>
            \A h \in 1..num_hidden_units : \A b \in 1..batch_size :
                r.activations[h][b] = 0

\* C5 as amended: with k = 1 the anti-Hebbian unit is the winner and the
\* second assignment overwrites the first: for every sample a unit of highest
\* score has activation -delta and every other unit 0, in update and in
\* update_argsort, and neither call raises.
C5_WinnerGetsMinusDelta ==
    \A r \in {res_topk, res_argsort} :
        k = 1 =>
            /\ r.status /= "AssertionError"
            /\ HasReturned(r) =>
                  \A b \in 1..batch_size : \E h \in 1..num_hidden_units :
                      /\ Above(r.tot_input, h, b) = 0
                      /\ r.activations[h][b] = 0 - delta
                      /\ \A g \in (1..num_hidden_units) \ {h} : r.activations[g][b] = 0

\* both calls returned with k = 1 and more than one hidden unit
C5_Witness ==
    /\ k = 1
    /\ num_hidden_units >= 2
    /\ HasReturned(res_topk)
    /\ HasReturned(res_argsort)
    /\ \E h \in 1..num_hidden_units : res_topk.activations[h][1] = 0 - delta

\* two quotients num1/den1 and num2/den2 agree entry by entry
SameDelta(a, b) ==
    \A h \in 1..num_hidden_units : \A d \in 1..input_size :
        a.num[h][d] * b.den = b.num[h][d] * a.den

SameSelection ==
    /\ res_topk.first = res_argsort.first
    /\ res_topk.second = res_argsort.second

\* C6 as stated: for every X, W and hyperparameters update and update_argsort
\* select the same winner and the same k-th unit for every sample and return
\* identical deltas; refuted already on the deltas.
C6_SameForEveryInput ==
    (HasReturned(res_topk) /\ HasReturned(res_argsort)) =>
        SameDelta(res_topk.d_w, res_argsort.d_w)

\* C6 as amended: they do whenever no two hidden units have the same score
\* for a sample.
C6_SameWithoutTies ==
    (HasReturned(res_topk) /\ HasReturned(res_argsort) /\ NoTies(res_topk.tot_input))
        => SameSelection /\ SameDelta(res_topk.d_w, res_argsort.d_w)

\* both returned on a batch without ties, k = 2 of three units
C6_Witness ==
    /\ HasReturned(res_topk)
    /\ HasReturned(res_argsort)
    /\ NoTies(res_topk.tot_input)
    /\ k = 2
    /\ num_hidden_units = 3
    /\ batch_size = 2
    /\ res_argsort.first[1] /= res_argsort.first[2]

\* the absolute values of the entries of a matrix
AbsEntries(m) == {Abs(m[h][d]) : h \in 1..num_hidden_units, d \in 1..input_size}

\* C7: update returns the raw delta divided by max(its largest absolute entry,
\* precision), a positive divisor; when the largest absolute entry is at least
\* precision the returned entries lie in [-1, 1] and one has magnitude 1; when
\* all are below precision the divisor is precision.
C7_NormalizedByMaxAbs ==
    HasReturned(res_topk) =>
        LET ds == res_topk.ds
            dw == res_topk.d_w
            m == CHOOSE x \in AbsEntries(ds) : \A y \in AbsEntries(ds) : y <= x
        IN  /\ dw.num = ds
            /\ dw.den = Max(m, precision)
            /\ dw.den > 0
            /\ m >= precision =>
                  /\ \A x \in AbsEntries(dw.num) : x <= dw.den
                  /\ \E x \in AbsEntries(dw.num) : x = dw.den
            /\ m < precision => dw.den = precision

\* a raw delta above precision whose extreme entry is negative
C7_Witness ==
    /\ HasReturned(res_topk)
    /\ res_topk.d_w.den > precision
    /\ \E h \in 1..num_hidden_units : \E d \in 1..input_size :
          res_topk.d_w.num[h][d] = 0 - res_topk.d_w.den
    /\ \A h \in 1..num_hidden_units : \A d \in 1..input_size :
          res_topk.d_w.num[h][d] < res_topk.d_w.den

\* an all-zero raw delta, divided by precision
C7_WitnessDegenerate ==
    /\ HasReturned(res_topk)
    /\ AbsEntries(res_topk.ds) = {0}
    /\ res_topk.d_w.den = precision

====
